---- MODULE Spec2Model ----
(***************************************************************************)
(* Model of the RFID device controller: rfid_module.py (Reader mode and    *)
(* server-triggered Enroller mode) and rfid_module_enroll.py (auto-capture *)
(* Enroller mode).                                                         *)
(*                                                                         *)
(* Time is counted in ticks of 50 ms, so that the 0.1 s error pause of     *)
(* read_card is two ticks and a loop iteration can start strictly inside   *)
(* the last pause-length of the timeout window.                            *)
(***************************************************************************)
EXTENDS Integers, Sequences, FiniteSets, TLC

VARIABLES
    script,          \* which file runs: "rfid_module" or "rfid_module_enroll"
    device_mode,     \* self.device_mode
    retry_count,     \* self.retry_count
    bringUpOkAt,     \* peripheral stub: number of the first attempt that succeeds (0: never)
    jsonErrorIsRequestException, \* whether the installed requests raises a RequestException subclass from response.json()
    attempt,         \* number of bring-up attempts made by _initialize_pn532
    initResult,      \* "running", "ok" (returned True), "error" (RuntimeError), "none" (fell out of the for loop)
    pc,              \* position of every thread
    elapsed,         \* time.time() - start_time of the thread's read_card call, in ticks
    timeout,         \* timeout argument of the thread's read_card call, in ticks
    card_id,         \* value returned by the thread's last read_card call
    uid,             \* UID the peripheral produced for that call
    hadError,        \* whether a poll of that call raised
    response,        \* outcome of the thread's remote request
    nRequest,        \* remote requests sent for the current card event
    nSuccess,        \* indicate_success calls for the current card event
    nFailure,        \* indicate_failure calls for the current card event
    signalling,      \* indicator routine the thread is inside
    reply,           \* HTTP reply of a command-surface handler
    gpioCleanups,    \* number of GPIO.cleanup() calls made
    lateWrite,       \* whether GPIO.output was called after a GPIO.cleanup()
    pinHigh,         \* pin a handler thread has written HIGH and not yet LOW (_beep, start_enrollment_indicator)
    exit_status,     \* exit status of the process (-1 while it runs)
    backoffTicks,    \* time slept between bring-up attempts, in ticks
    sent,            \* kinds of remote request sent so far
    dwell,           \* UID of the submitted card that has stayed in the field since
    dwellSubmits,    \* enrollment submissions of that card during its stay
    beeped           \* whether a /beep write happened during the current read_card call

vars == <<script, device_mode, retry_count, bringUpOkAt, jsonErrorIsRequestException,
          attempt, initResult, pc, elapsed, timeout, card_id, uid, hadError,
          response, nRequest, nSuccess, nFailure, signalling, reply,
          gpioCleanups, lateWrite, pinHigh, exit_status, backoffTicks, sent,
          dwell, dwellSubmits, beeped>>

extra == <<gpioCleanups, lateWrite, pinHigh, exit_status, backoffTicks, sent,
           dwell, dwellSubmits, beeped>>

config == <<script, device_mode, retry_count, bringUpOkAt, jsonErrorIsRequestException>>

(***************************************************************************)
(* Program constants.                                                      *)
(***************************************************************************)
READER_MODE == 0
ENROLLER_MODE == 1
\* read_passive_target(timeout=0.5): 10 ticks
POLL_TIMEOUT == 10
\* time.sleep(0.1) after a poll error: 2 ticks
ERROR_PAUSE == 2
\* read_card() default timeout of 1 s, used by the Reader loop: 20 ticks
CARD_READ_TIMEOUT == 20
\* read_card(timeout=10) of both enrollment variants: 200 ticks
ENROLL_READ_TIMEOUT == 200
\* retry_count default of PN532Handler.__init__
DEFAULT_RETRY_COUNT == 3
\* time.sleep(2) between two bring-up attempts: 40 ticks
INIT_BACKOFF == 40

(***************************************************************************)
(* Bounds of the model.                                                    *)
(***************************************************************************)
MaxRetry == 3
MaxTimeout == 24
MaxDwellSubmits == 2

Main == "main"
Handlers == {"h1", "h2"}
Threads == {Main} \cup Handlers

None == "None"
NoUid == <<>>
CardUIDs == { <<4, 163, 178, 193>>, <<4, 10, 255, 0, 18, 52, 86>> }

(***************************************************************************)
(* bytes(uid).hex(): two lowercase hexadecimal digits per byte.            *)
(***************************************************************************)
HexDigit == <<"0", "1", "2", "3", "4", "5", "6", "7",
              "8", "9", "a", "b", "c", "d", "e", "f">>

RECURSIVE Hex(_)
Hex(u) ==
    IF u = <<>> THEN ""
    ELSE HexDigit[(Head(u) \div 16) + 1] \o HexDigit[(Head(u) % 16) + 1] \o Hex(Tail(u))

(***************************************************************************)
(* Outcomes of one pn532.read_passive_target(timeout=0.5) call: no card    *)
(* once the poll timeout has passed, an exception at any time within it,   *)
(* or a UID (read_card then returns without reading the clock again, so no *)
(* delay is counted for it).                                               *)
(* Without a bound self.pn532 the attribute access raises at once.         *)
(***************************************************************************)
PollOutcomes ==
    [kind : {"no_card"}, uid : {NoUid}, delay : {POLL_TIMEOUT}]
    \cup [kind : {"raise"}, uid : {NoUid}, delay : 0..POLL_TIMEOUT]
    \cup [kind : {"uid"}, uid : CardUIDs, delay : {0}]

PollsOf(ok) ==
    IF ok THEN PollOutcomes
    ELSE [kind : {"raise"}, uid : {NoUid}, delay : {0}]

(***************************************************************************)
(* Faulty variants of read_card's loop: one lets a poll error end the call *)
(* (no try/except around the poll), one pauses a full second after an      *)
(* error.                                                                  *)
(***************************************************************************)
ReadCardIterAbort(e, t, out) ==
    IF ~(e < t)
    THEN [done |-> TRUE, value |-> None, elapsed |-> e, uid |-> NoUid, error |-> FALSE]
    ELSE CASE out.kind = "uid" ->
                [done |-> TRUE, value |-> Hex(out.uid), elapsed |-> e + out.delay,
                 uid |-> out.uid, error |-> FALSE]
           [] out.kind = "no_card" ->
                [done |-> FALSE, value |-> None, elapsed |-> e + out.delay,
                 uid |-> NoUid, error |-> FALSE]
           [] OTHER ->
                [done |-> TRUE, value |-> None, elapsed |-> e + out.delay,
                 uid |-> NoUid, error |-> TRUE]

ReadCardIterLongPause(e, t, out) ==
    IF ~(e < t)
    THEN [done |-> TRUE, value |-> None, elapsed |-> e, uid |-> NoUid, error |-> FALSE]
    ELSE CASE out.kind = "uid" ->
                [done |-> TRUE, value |-> Hex(out.uid), elapsed |-> e + out.delay,
                 uid |-> out.uid, error |-> FALSE]
           [] out.kind = "no_card" ->
                [done |-> FALSE, value |-> None, elapsed |-> e + out.delay,
                 uid |-> NoUid, error |-> FALSE]
           [] OTHER ->
                [done |-> FALSE, value |-> None,
                 elapsed |-> e + out.delay + 10 * ERROR_PAUSE,
                 uid |-> NoUid, error |-> TRUE]

(***************************************************************************)
(* One pass of read_card's while loop, from the loop test on.              *)
(***************************************************************************)
ReadCardIter(e, t, out) ==
    IF ~(e < t)
    THEN [done |-> TRUE, value |-> None, elapsed |-> e, uid |-> NoUid, error |-> FALSE]
    ELSE CASE out.kind = "uid" ->
                [done |-> TRUE, value |-> Hex(out.uid), elapsed |-> e + out.delay,
                 uid |-> out.uid, error |-> FALSE]
           [] out.kind = "no_card" ->
                [done |-> FALSE, value |-> None, elapsed |-> e + out.delay,
                 uid |-> NoUid, error |-> FALSE]
           [] OTHER ->
                [done |-> FALSE, value |-> None, elapsed |-> e + out.delay + ERROR_PAUSE,
                 uid |-> NoUid, error |-> TRUE]

(***************************************************************************)
(* A direct call read_card(T) on an initialised handler.                   *)
(***************************************************************************)
InitReadCard ==
    /\ script = "rfid_module"
    /\ device_mode = READER_MODE
    /\ retry_count = DEFAULT_RETRY_COUNT
    /\ bringUpOkAt = 1
    /\ jsonErrorIsRequestException = TRUE
    /\ attempt = 1
    /\ initResult = "ok"
    /\ pc = [t \in Threads |-> IF t = Main THEN "read_card" ELSE "idle"]
    /\ elapsed = [t \in Threads |-> 0]
    /\ timeout \in [Threads -> 0..MaxTimeout]
    /\ \A t \in Handlers : timeout[t] = 0
    /\ card_id = [t \in Threads |-> None]
    /\ uid = [t \in Threads |-> NoUid]
    /\ hadError = [t \in Threads |-> FALSE]
    /\ response = [t \in Threads |-> [kind |-> "none", status_code |-> 0, body |-> ""]]
    /\ nRequest = [t \in Threads |-> 0]
    /\ nSuccess = [t \in Threads |-> 0]
    /\ nFailure = [t \in Threads |-> 0]
    /\ signalling = [t \in Threads |-> "none"]
    /\ reply = [t \in Threads |-> [status |-> 0, result |-> "", card_id |-> None]]
    /\ gpioCleanups = 0
    /\ lateWrite = FALSE
    /\ pinHigh = [t \in Threads |-> "none"]
    /\ exit_status = -1
    /\ backoffTicks = 0
    /\ sent = {}
    /\ dwell = NoUid
    /\ dwellSubmits = 0
    /\ beeped = FALSE

ReadCard(t) ==
    /\ pc[t] = "read_card"
    /\ \E out \in PollsOf(initResult = "ok") :
         LET r == ReadCardIter(elapsed[t], timeout[t], out) IN
         /\ elapsed' = [elapsed EXCEPT ![t] = r.elapsed]
         /\ hadError' = [hadError EXCEPT ![t] = hadError[t] \/ r.error]
         /\ uid' = [uid EXCEPT ![t] = r.uid]
         /\ card_id' = [card_id EXCEPT ![t] = r.value]
         /\ pc' = [pc EXCEPT ![t] = IF r.done THEN "returned" ELSE "read_card"]
    /\ UNCHANGED <<config, extra, attempt, initResult, timeout, response, nRequest,
                   nSuccess, nFailure, signalling, reply>>

NextReadCard == ReadCard(Main)

SpecReadCard == InitReadCard /\ [][NextReadCard]_vars

FairReadCard == SpecReadCard /\ WF_vars(NextReadCard)

(***************************************************************************)
(* Outcomes of a remote request: an HTTP response with a status and a body,*)
(* or a requests exception (connection failure, timeout).                  *)
(***************************************************************************)
NoResponse == [kind |-> "none", status_code |-> 0, body |-> ""]
StatusCodes == {200, 201, 404, 500}
Bodies == {"allowed_true", "allowed_false", "allowed_absent", "not_json", "json_array"}
Responses ==
    [kind : {"response"}, status_code : StatusCodes, body : Bodies]
    \cup [kind : {"ConnectionError", "Timeout"}, status_code : {0}, body : {""}]

NoReply == [status |-> 0, result |-> "", card_id |-> None]

(***************************************************************************)
(* State after the module is loaded, before PN532Handler(...) runs.        *)
(***************************************************************************)
InitCommon ==
    /\ retry_count \in 0..MaxRetry
    /\ bringUpOkAt \in 0..MaxRetry
    /\ jsonErrorIsRequestException \in BOOLEAN
    /\ attempt = 0
    /\ initResult = "running"
    /\ pc = [t \in Threads |-> IF t = Main THEN "init" ELSE "idle"]
    /\ elapsed = [t \in Threads |-> 0]
    /\ timeout = [t \in Threads |-> 0]
    /\ card_id = [t \in Threads |-> None]
    /\ uid = [t \in Threads |-> NoUid]
    /\ hadError = [t \in Threads |-> FALSE]
    /\ response = [t \in Threads |-> NoResponse]
    /\ nRequest = [t \in Threads |-> 0]
    /\ nSuccess = [t \in Threads |-> 0]
    /\ nFailure = [t \in Threads |-> 0]
    /\ signalling = [t \in Threads |-> "none"]
    /\ reply = [t \in Threads |-> NoReply]
    /\ gpioCleanups = 0
    /\ lateWrite = FALSE
    /\ pinHigh = [t \in Threads |-> "none"]
    /\ exit_status = -1
    /\ backoffTicks = 0
    /\ sent = {}
    /\ dwell = NoUid
    /\ dwellSubmits = 0
    /\ beeped = FALSE

Init ==
    /\ \E p \in { <<"rfid_module", READER_MODE>>, <<"rfid_module_enroll", ENROLLER_MODE>> } :
          script = p[1] /\ device_mode = p[2]
    /\ InitCommon

\* Faulty variant of _initialize_pn532: the pause is taken after every failed
\* attempt, the last one included, before the error is raised.
InitAttemptBackoffAlways ==
    /\ pc[Main] = "init"
    /\ IF ~(attempt < retry_count)
       THEN /\ initResult' = (IF attempt = 0 THEN "none" ELSE "error")
            /\ pc' = [pc EXCEPT ![Main] = IF attempt = 0 THEN "dispatch" ELSE "exited"]
            /\ UNCHANGED attempt
       ELSE /\ attempt' = attempt + 1
            /\ IF attempt + 1 = bringUpOkAt
               THEN /\ initResult' = "ok"
                    /\ pc' = [pc EXCEPT ![Main] = "dispatch"]
               ELSE /\ pc' = [pc EXCEPT ![Main] = "init_backoff"]
                    /\ UNCHANGED initResult
    /\ UNCHANGED <<config, extra, elapsed, timeout, card_id, uid, hadError, response,
                   nRequest, nSuccess, nFailure, signalling, reply>>

(***************************************************************************)
(* _initialize_pn532: one pass of "for attempt in range(self.retry_count)".*)
(* The variable attempt counts the passes made, so the loop index of the   *)
(* pass being made is its value before the step.                           *)
(***************************************************************************)
InitAttempt ==
    /\ pc[Main] = "init"
    /\ IF ~(attempt < retry_count)
       THEN \* range exhausted: the function ends without a return statement
            /\ initResult' = "none"
            /\ pc' = [pc EXCEPT ![Main] = "dispatch"]
            /\ UNCHANGED attempt
       ELSE /\ attempt' = attempt + 1
            /\ IF attempt + 1 = bringUpOkAt
               THEN /\ initResult' = "ok"
                    /\ pc' = [pc EXCEPT ![Main] = "dispatch"]
               ELSE IF attempt < retry_count - 1
                    THEN /\ pc' = [pc EXCEPT ![Main] = "init_backoff"]
                         /\ UNCHANGED initResult
                    ELSE /\ initResult' = "error"
                         /\ pc' = [pc EXCEPT ![Main] = "exited"]
    /\ UNCHANGED <<config, extra, elapsed, timeout, card_id, uid, hadError, response,
                   nRequest, nSuccess, nFailure, signalling, reply>>

\* time.sleep(2) between two attempts
InitBackoff ==
    /\ pc[Main] = "init_backoff"
    /\ pc' = [pc EXCEPT ![Main] = "init"]
    /\ backoffTicks' = backoffTicks + INIT_BACKOFF
    /\ UNCHANGED <<config, attempt, initResult, elapsed, timeout, card_id, uid,
                   hadError, response, nRequest, nSuccess, nFailure, signalling, reply,
                   gpioCleanups, lateWrite, pinHigh, exit_status, sent, dwell,
                   dwellSubmits, beeped>>

(***************************************************************************)
(* __main__ after the constructor returned: the mode's entry point.        *)
(***************************************************************************)
Dispatch ==
    /\ pc[Main] = "dispatch"
    /\ IF device_mode = READER_MODE
       THEN /\ pc' = [pc EXCEPT ![Main] = "reader_read"]
            /\ timeout' = [timeout EXCEPT ![Main] = CARD_READ_TIMEOUT]
       ELSE IF script = "rfid_module"
            THEN /\ pc' = [pc EXCEPT ![Main] = "serving"]
                 /\ UNCHANGED timeout
            ELSE /\ pc' = [pc EXCEPT ![Main] = "auto_read"]
                 /\ timeout' = [timeout EXCEPT ![Main] = ENROLL_READ_TIMEOUT]
    /\ UNCHANGED <<config, extra, attempt, initResult, elapsed, card_id, uid, hadError,
                   response, nRequest, nSuccess, nFailure, signalling, reply>>

(***************************************************************************)
(* The read_card call of a mode loop or handler: one pass of its loop.     *)
(* whenNone and whenCard are the caller's positions after the return.      *)
(***************************************************************************)
CallReadCard(t, here, whenNone, whenCard) ==
    /\ pc[t] = here
    /\ \E out \in PollsOf(initResult = "ok") :
         LET r == ReadCardIter(elapsed[t], timeout[t], out) IN
         IF r.done
         THEN /\ elapsed' = [elapsed EXCEPT ![t] = 0]
              /\ card_id' = [card_id EXCEPT ![t] = r.value]
              /\ uid' = [uid EXCEPT ![t] = r.uid]
              /\ pc' = [pc EXCEPT ![t] = IF r.value = None THEN whenNone ELSE whenCard]
         ELSE /\ elapsed' = [elapsed EXCEPT ![t] = r.elapsed]
              /\ UNCHANGED <<card_id, uid, pc>>
    /\ UNCHANGED <<config, extra, attempt, initResult, timeout, hadError, response,
                   nRequest, nSuccess, nFailure, signalling, reply>>

(***************************************************************************)
(* check_card_access: the decision taken on the GET /api/entry/{card_id}   *)
(* outcome.  "success"/"failure" name the indicator called; "error" is an  *)
(* exception that is no RequestException and leaves the while loop.        *)
(***************************************************************************)
AccessDecisionFailOpen(r, jsonIsReqExc) ==
    IF r.kind # "response" THEN "success"
    ELSE IF r.status_code # 200 THEN "failure"
    ELSE IF r.body = "not_json" THEN (IF jsonIsReqExc THEN "failure" ELSE "error")
    ELSE IF r.body = "json_array" THEN "error"
    ELSE IF r.body = "allowed_true" THEN "success"
    ELSE "failure"

AccessDecision(r, jsonIsReqExc) ==
    IF r.kind # "response" THEN "failure"
    ELSE IF r.status_code # 200 THEN "failure"
    ELSE IF r.body = "not_json" THEN (IF jsonIsReqExc THEN "failure" ELSE "error")
    ELSE IF r.body = "json_array" THEN "error"
    ELSE IF r.body = "allowed_true" THEN "success"
    ELSE "failure"

ReaderRead(t) == CallReadCard(t, "reader_read", "reader_read", "reader_request")

\* requests.get(...) returns or raises
ReaderRequest(t) ==
    /\ pc[t] = "reader_request"
    /\ \E r \in Responses : response' = [response EXCEPT ![t] = r]
    /\ nRequest' = [nRequest EXCEPT ![t] = nRequest[t] + 1]
    /\ pc' = [pc EXCEPT ![t] = "reader_decide"]
    /\ sent' = sent \cup {"entry"}
    /\ UNCHANGED <<config, attempt, initResult, elapsed, timeout, card_id, uid,
                   hadError, nSuccess, nFailure, signalling, reply,
                   gpioCleanups, lateWrite, pinHigh, exit_status, backoffTicks, dwell, dwellSubmits, beeped>>

\* The indicator is started before the request is made.
ReaderIndicateEarly(t) ==
    /\ pc[t] \in {"reader_request", "reader_decide"}
    /\ LET d == AccessDecision(response[t], jsonErrorIsRequestException) IN
       IF d = "error"
       THEN /\ pc' = [pc EXCEPT ![t] = "loop_ended"]
            /\ UNCHANGED <<nSuccess, nFailure, signalling>>
       ELSE /\ pc' = [pc EXCEPT ![t] = "reader_signalling"]
            /\ signalling' = [signalling EXCEPT ![t] = d]
            /\ nSuccess' = [nSuccess EXCEPT ![t] = nSuccess[t] + (IF d = "success" THEN 1 ELSE 0)]
            /\ nFailure' = [nFailure EXCEPT ![t] = nFailure[t] + (IF d = "failure" THEN 1 ELSE 0)]
    /\ UNCHANGED <<config, extra, attempt, initResult, elapsed, timeout, card_id, uid,
                   hadError, response, nRequest, reply>>

\* the if/else on the response and the except clauses: an indicator call
\* starts, or the exception reaches the outer "except Exception"
ReaderIndicate(t) ==
    /\ pc[t] = "reader_decide"
    /\ LET d == AccessDecision(response[t], jsonErrorIsRequestException) IN
       IF d = "error"
       THEN /\ pc' = [pc EXCEPT ![t] = "loop_ended"]
            /\ UNCHANGED <<nSuccess, nFailure, signalling>>
       ELSE /\ pc' = [pc EXCEPT ![t] = "reader_signalling"]
            /\ signalling' = [signalling EXCEPT ![t] = d]
            /\ nSuccess' = [nSuccess EXCEPT ![t] = nSuccess[t] + (IF d = "success" THEN 1 ELSE 0)]
            /\ nFailure' = [nFailure EXCEPT ![t] = nFailure[t] + (IF d = "failure" THEN 1 ELSE 0)]
    /\ UNCHANGED <<config, extra, attempt, initResult, elapsed, timeout, card_id, uid,
                   hadError, response, nRequest, reply>>

\* indicate_success / indicate_failure returns
ReaderIndicateDone(t) ==
    /\ pc[t] = "reader_signalling"
    /\ signalling' = [signalling EXCEPT ![t] = "none"]
    /\ pc' = [pc EXCEPT ![t] = "reader_cooldown"]
    /\ UNCHANGED <<config, extra, attempt, initResult, elapsed, timeout, card_id, uid,
                   hadError, response, nRequest, nSuccess, nFailure, reply>>

\* time.sleep(0.5), then the next pass of "while True" (a new card event)
ReaderCooldown(t) ==
    /\ pc[t] = "reader_cooldown"
    /\ pc' = [pc EXCEPT ![t] = "reader_read"]
    /\ card_id' = [card_id EXCEPT ![t] = None]
    /\ uid' = [uid EXCEPT ![t] = NoUid]
    /\ response' = [response EXCEPT ![t] = NoResponse]
    /\ nRequest' = [nRequest EXCEPT ![t] = 0]
    /\ nSuccess' = [nSuccess EXCEPT ![t] = 0]
    /\ nFailure' = [nFailure EXCEPT ![t] = 0]
    /\ UNCHANGED <<config, extra, attempt, initResult, elapsed, timeout, hadError,
                   signalling, reply>>

(***************************************************************************)
(* Auto-capture enrollment loop of rfid_module_enroll.py.                  *)
(***************************************************************************)
AutoRead(t) == CallReadCard(t, "auto_read", "auto_idle", "auto_request")

\* time.sleep(0.5) after a read that timed out, then "continue"
AutoIdle(t) ==
    /\ pc[t] = "auto_idle"
    /\ pc' = [pc EXCEPT ![t] = "auto_read"]
    /\ beeped' = FALSE
    /\ UNCHANGED <<config, gpioCleanups, lateWrite, pinHigh, exit_status, backoffTicks,
                   sent, dwell, dwellSubmits, attempt, initResult, elapsed, timeout, card_id, uid,
                   hadError, response, nRequest, nSuccess, nFailure, signalling, reply>>

\* requests.post(".../temporary-user?rfid=...") returns or raises.
\* dwell and dwellSubmits follow the physical card: a card read again before
\* it left the field is the card submitted last.
AutoRequest(t) ==
    /\ pc[t] = "auto_request"
    /\ \E r \in Responses : response' = [response EXCEPT ![t] = r]
    /\ nRequest' = [nRequest EXCEPT ![t] = nRequest[t] + 1]
    /\ pc' = [pc EXCEPT ![t] = "auto_decide"]
    /\ sent' = sent \cup {"enroll"}
    /\ dwell' = uid[t]
    /\ dwellSubmits' = IF dwell # uid[t] THEN 1
                       ELSE IF dwellSubmits < MaxDwellSubmits THEN dwellSubmits + 1
                       ELSE dwellSubmits
    /\ beeped' = FALSE
    /\ UNCHANGED <<config, attempt, initResult, elapsed, timeout, card_id, uid,
                   hadError, nSuccess, nFailure, signalling, reply,
                   gpioCleanups, lateWrite, pinHigh, exit_status, backoffTicks>>

\* The response status is not looked at: any response is followed by
\* indicate_success; an exception reaches "except Exception" of the loop.
AutoDecision(r) == IF r.kind = "response" THEN "success" ELSE "failure"

AutoIndicate(t) ==
    /\ pc[t] = "auto_decide"
    /\ LET d == AutoDecision(response[t]) IN
       /\ signalling' = [signalling EXCEPT ![t] = d]
       /\ nSuccess' = [nSuccess EXCEPT ![t] = nSuccess[t] + (IF d = "success" THEN 1 ELSE 0)]
       /\ nFailure' = [nFailure EXCEPT ![t] = nFailure[t] + (IF d = "failure" THEN 1 ELSE 0)]
    /\ pc' = [pc EXCEPT ![t] = "auto_signalling"]
    /\ UNCHANGED <<config, extra, attempt, initResult, elapsed, timeout, card_id, uid,
                   hadError, response, nRequest, reply>>

\* the indicator call returns: on to the cooldown, or to the finally clause
AutoIndicateDone(t) ==
    /\ pc[t] = "auto_signalling"
    /\ pc' = [pc EXCEPT ![t] = IF signalling[t] = "success" THEN "auto_cooldown"
                                ELSE "auto_finally"]
    /\ signalling' = [signalling EXCEPT ![t] = "none"]
    /\ UNCHANGED <<config, extra, attempt, initResult, elapsed, timeout, card_id, uid,
                   hadError, response, nRequest, nSuccess, nFailure, reply>>

\* time.sleep(3), then the next pass of "while True" (a new card event)
AutoCooldown(t) ==
    /\ pc[t] = "auto_cooldown"
    /\ pc' = [pc EXCEPT ![t] = "auto_read"]
    /\ card_id' = [card_id EXCEPT ![t] = None]
    /\ uid' = [uid EXCEPT ![t] = NoUid]
    /\ response' = [response EXCEPT ![t] = NoResponse]
    /\ nRequest' = [nRequest EXCEPT ![t] = 0]
    /\ nSuccess' = [nSuccess EXCEPT ![t] = 0]
    /\ nFailure' = [nFailure EXCEPT ![t] = 0]
    /\ UNCHANGED <<config, extra, attempt, initResult, elapsed, timeout, hadError,
                   signalling, reply>>

\* finally: GPIO.cleanup(); start_enrollment_server returns
AutoFinally(t) ==
    /\ pc[t] = "auto_finally"
    /\ pc' = [pc EXCEPT ![t] = "loop_ended"]
    /\ gpioCleanups' = gpioCleanups + 1
    /\ pinHigh' = [h \in Threads |-> "none"]
    /\ UNCHANGED <<config, attempt, initResult, elapsed, timeout, card_id, uid,
                   hadError, response, nRequest, nSuccess, nFailure, signalling, reply,
                   lateWrite, exit_status, backoffTicks, sent, dwell, dwellSubmits, beeped>>

\* the submitted card is taken out of the field
CardLeaves ==
    /\ script = "rfid_module_enroll"
    /\ dwell # NoUid
    /\ dwell' = NoUid
    /\ dwellSubmits' = 0
    /\ UNCHANGED <<config, attempt, initResult, pc, elapsed, timeout, card_id, uid,
                   hadError, response, nRequest, nSuccess, nFailure, signalling, reply,
                   gpioCleanups, lateWrite, pinHigh, exit_status, backoffTicks, sent,
                   beeped>>

(***************************************************************************)
(* POST /beep of rfid_module_enroll.py, handled on a thread of the Flask   *)
(* server that start_enrollment_server started before its loop.            *)
(* trigger_beep calls self.hw._beep(2): GPIO.output(buzzer, HIGH),         *)
(* time.sleep(2), GPIO.output(buzzer, LOW).  GPIO.output on released GPIO  *)
(* raises, and "except Exception" answers 500.                             *)
(***************************************************************************)
ServerUp ==
    /\ script = "rfid_module_enroll"
    /\ pc[Main] \in {"auto_read", "auto_idle", "auto_request", "auto_decide",
                     "auto_signalling", "auto_cooldown", "auto_finally",
                     "auto_stop_finally", "loop_ended", "stopped"}

BeepReply(ok) ==
    IF ok THEN [status |-> 200, result |-> "success", card_id |-> None]
    ELSE [status |-> 500, result |-> "error", card_id |-> None]

\* a POST /beep request arrives: the HIGH write, then the sleep begins
BeepHigh(h) ==
    /\ ServerUp
    /\ pc[h] = "idle"
    /\ IF gpioCleanups = 0
       THEN /\ pinHigh' = [pinHigh EXCEPT ![h] = "buzzer"]
            /\ pc' = [pc EXCEPT ![h] = "beep_sleep"]
            /\ UNCHANGED <<lateWrite, reply>>
       ELSE /\ lateWrite' = TRUE
            /\ reply' = [reply EXCEPT ![h] = BeepReply(FALSE)]
            /\ pc' = [pc EXCEPT ![h] = "beep_responded"]
            /\ UNCHANGED pinHigh
    /\ beeped' = (beeped \/ pc[Main] = "auto_read")
    /\ UNCHANGED <<config, attempt, initResult, elapsed, timeout, card_id, uid,
                   hadError, response, nRequest, nSuccess, nFailure, signalling,
                   gpioCleanups, exit_status, backoffTicks, sent, dwell, dwellSubmits>>

\* a handler that answers only once the main loop is out of read_card
BeepLowAfterRead(h) ==
    /\ pc[h] = "beep_sleep"
    /\ pc[Main] # "auto_read"
    /\ pinHigh' = [pinHigh EXCEPT ![h] = "none"]
    /\ reply' = [reply EXCEPT ![h] = BeepReply(TRUE)]
    /\ pc' = [pc EXCEPT ![h] = "beep_responded"]
    /\ UNCHANGED <<config, attempt, initResult, elapsed, timeout, card_id, uid,
                   hadError, response, nRequest, nSuccess, nFailure, signalling,
                   gpioCleanups, lateWrite, exit_status, backoffTicks, sent, dwell,
                   dwellSubmits, beeped>>

\* the 2 s sleep is over: the LOW write, then the reply
BeepLow(h) ==
    /\ pc[h] = "beep_sleep"
    /\ pinHigh' = [pinHigh EXCEPT ![h] = "none"]
    /\ lateWrite' = (lateWrite \/ gpioCleanups > 0)
    /\ reply' = [reply EXCEPT ![h] = BeepReply(gpioCleanups = 0)]
    /\ pc' = [pc EXCEPT ![h] = "beep_responded"]
    /\ beeped' = (beeped \/ pc[Main] = "auto_read")
    /\ UNCHANGED <<config, attempt, initResult, elapsed, timeout, card_id, uid,
                   hadError, response, nRequest, nSuccess, nFailure, signalling,
                   gpioCleanups, exit_status, backoffTicks, sent, dwell, dwellSubmits>>

\* the reply has been sent; the thread is free for another request
BeepDone(h) ==
    /\ pc[h] = "beep_responded"
    /\ pc' = [pc EXCEPT ![h] = "idle"]
    /\ reply' = [reply EXCEPT ![h] = NoReply]
    /\ UNCHANGED <<config, extra, attempt, initResult, elapsed, timeout, card_id, uid,
                   hadError, response, nRequest, nSuccess, nFailure, signalling>>

(***************************************************************************)
(* Operator stop (Ctrl+C) while the main thread is in the try body of its  *)
(* loop, and the end of the process.                                       *)
(***************************************************************************)

\* check_card_access: "except KeyboardInterrupt" prints and the method returns
ReaderInterrupt(t) ==
    /\ pc[t] \in {"reader_read", "reader_request", "reader_decide",
                  "reader_signalling", "reader_cooldown"}
    /\ pc' = [pc EXCEPT ![t] = "stopped"]
    /\ signalling' = [signalling EXCEPT ![t] = "none"]
    /\ elapsed' = [elapsed EXCEPT ![t] = 0]
    /\ UNCHANGED <<config, extra, attempt, initResult, timeout, card_id, uid,
                   hadError, response, nRequest, nSuccess, nFailure, reply>>

\* start_enrollment_server of rfid_module_enroll.py: "except KeyboardInterrupt"
\* prints, then the finally clause runs
AutoInterrupt(t) ==
    /\ \/ pc[t] \in {"auto_read", "auto_idle", "auto_request", "auto_decide", "auto_cooldown"}
       \/ pc[t] = "auto_signalling" /\ signalling[t] = "success"
    /\ pc' = [pc EXCEPT ![t] = "auto_stop_finally"]
    /\ signalling' = [signalling EXCEPT ![t] = "none"]
    /\ elapsed' = [elapsed EXCEPT ![t] = 0]
    /\ beeped' = FALSE
    /\ UNCHANGED <<config, gpioCleanups, lateWrite, pinHigh, exit_status, backoffTicks,
                   sent, dwell, dwellSubmits, attempt, initResult, timeout, card_id, uid,
                   hadError, response, nRequest, nSuccess, nFailure, reply>>

\* finally: GPIO.cleanup() after an operator stop
AutoStopFinally(t) ==
    /\ pc[t] = "auto_stop_finally"
    /\ pc' = [pc EXCEPT ![t] = "stopped"]
    /\ gpioCleanups' = gpioCleanups + 1
    /\ pinHigh' = [h \in Threads |-> "none"]
    /\ UNCHANGED <<config, attempt, initResult, elapsed, timeout, card_id, uid,
                   hadError, response, nRequest, nSuccess, nFailure, signalling, reply,
                   lateWrite, exit_status, backoffTicks, sent, dwell,
                   dwellSubmits, beeped>>

\* __main__ ends: after the mode method returned, or after "except Exception"
\* printed the constructor's error.  The script ends without sys.exit, so the
\* status is 0; the handler object is destroyed and __del__ calls
\* self.hw.cleanup() (self.hw is set before _initialize_pn532 runs).  The
\* daemon server thread of rfid_module_enroll.py is abandoned with the process.
ProcessExit ==
    /\ pc[Main] \in {"exited", "loop_ended", "stopped"}
    /\ pc' = [t \in Threads |-> IF t = Main THEN "terminated" ELSE "idle"]
    /\ reply' = [t \in Threads |-> NoReply]
    /\ pinHigh' = [t \in Threads |-> "none"]
    /\ gpioCleanups' = gpioCleanups + 1
    /\ exit_status' = 0
    /\ UNCHANGED <<config, attempt, initResult, elapsed, timeout, card_id, uid,
                   hadError, response, nRequest, nSuccess, nFailure, signalling,
                   lateWrite, backoffTicks, sent, dwell, dwellSubmits, beeped>>

(***************************************************************************)
(* The main thread of a Reader (rfid_module.py) or of an auto-capture      *)
(* Enroller (rfid_module_enroll.py).                                       *)
(***************************************************************************)
Next ==
    \/ InitAttempt
    \/ InitBackoff
    \/ Dispatch
    \/ ReaderRead(Main)
    \/ ReaderRequest(Main)
    \/ ReaderIndicate(Main)
    \/ ReaderIndicateDone(Main)
    \/ ReaderCooldown(Main)
    \/ AutoRead(Main)
    \/ AutoIdle(Main)
    \/ AutoRequest(Main)
    \/ AutoIndicate(Main)
    \/ AutoIndicateDone(Main)
    \/ AutoCooldown(Main)
    \/ AutoFinally(Main)
    \/ CardLeaves
    \/ ReaderInterrupt(Main)
    \/ AutoInterrupt(Main)
    \/ AutoStopFinally(Main)
    \/ ProcessExit
    \/ \E h \in Handlers :
         \/ BeepHigh(h)
         \/ BeepLow(h)
         \/ BeepDone(h)

Spec == Init /\ [][Next]_vars

(***************************************************************************)
(* Server-triggered enrollment of rfid_module.py: the POST /api handler.   *)
(* The Flask server thread is started without a lock around the handler,   *)
(* so each element of Handlers is a request being served on its own thread.*)
(***************************************************************************)

\* Faulty variants: a read timeout answered like a remote failure, and any
\* remote response taken as an accepted enrollment.
EnrollOutcomeTimeoutAs500(cid, r) ==
    IF cid = None
    THEN [signal |-> "failure", status |-> 500, result |-> "error", card_id |-> None]
    ELSE IF r.kind # "response"
    THEN [signal |-> "failure", status |-> 500, result |-> "error", card_id |-> None]
    ELSE IF r.status_code = 200
    THEN [signal |-> "success", status |-> 200, result |-> "success", card_id |-> cid]
    ELSE [signal |-> "failure", status |-> 500, result |-> "error", card_id |-> None]

EnrollOutcomeAnyResponse(cid, r) ==
    IF cid = None
    THEN [signal |-> "failure", status |-> 408, result |-> "error", card_id |-> None]
    ELSE IF r.kind # "response"
    THEN [signal |-> "failure", status |-> 500, result |-> "error", card_id |-> None]
    ELSE [signal |-> "success", status |-> 200, result |-> "success", card_id |-> cid]

\* What enroll() signals and returns, from read_card's value and the outcome
\* of requests.post(".../users/enroll").
EnrollOutcome(cid, r) ==
    IF cid = None
    THEN [signal |-> "failure", status |-> 408, result |-> "error", card_id |-> None]
    ELSE IF r.kind # "response"
    THEN [signal |-> "failure", status |-> 500, result |-> "error", card_id |-> None]
    ELSE IF r.status_code = 200
    THEN [signal |-> "success", status |-> 200, result |-> "success", card_id |-> cid]
    ELSE [signal |-> "failure", status |-> 500, result |-> "error", card_id |-> None]

\* a POST /api request arrives: enroll() starts with start_enrollment_indicator(),
\* whose _blink_led writes the green LED pin HIGH and sleeps 0.5 s
HandleTrigger(t) ==
    /\ pc[Main] = "serving"
    /\ pc[t] = "idle"
    /\ pc' = [pc EXCEPT ![t] = "enroll_indicator"]
    /\ signalling' = [signalling EXCEPT ![t] = "enrollment"]
    /\ timeout' = [timeout EXCEPT ![t] = ENROLL_READ_TIMEOUT]
    /\ pinHigh' = [pinHigh EXCEPT ![t] = "green_led"]
    /\ UNCHANGED <<config, gpioCleanups, lateWrite, exit_status, backoffTicks, sent, dwell,
                   dwellSubmits, beeped, attempt, initResult, elapsed, card_id, uid, hadError,
                   response, nRequest, nSuccess, nFailure, reply>>

\* the LOW write; start_enrollment_indicator() returns; read_card(timeout=10)
\* is called
EnrollIndicatorDone(t) ==
    /\ pc[t] = "enroll_indicator"
    /\ pc' = [pc EXCEPT ![t] = "enroll_read"]
    /\ signalling' = [signalling EXCEPT ![t] = "none"]
    /\ pinHigh' = [pinHigh EXCEPT ![t] = "none"]
    /\ UNCHANGED <<config, gpioCleanups, lateWrite, exit_status, backoffTicks, sent, dwell,
                   dwellSubmits, beeped, attempt, initResult, elapsed, timeout, card_id, uid,
                   hadError, response, nRequest, nSuccess, nFailure, reply>>

EnrollRead(t) == CallReadCard(t, "enroll_read", "enroll_decide", "enroll_request")

\* requests.post(".../users/enroll") returns or raises
EnrollRequest(t) ==
    /\ pc[t] = "enroll_request"
    /\ \E r \in Responses : response' = [response EXCEPT ![t] = r]
    /\ nRequest' = [nRequest EXCEPT ![t] = nRequest[t] + 1]
    /\ pc' = [pc EXCEPT ![t] = "enroll_decide"]
    /\ sent' = sent \cup {"enroll"}
    /\ UNCHANGED <<config, attempt, initResult, elapsed, timeout, card_id, uid,
                   hadError, nSuccess, nFailure, signalling, reply,
                   gpioCleanups, lateWrite, pinHigh, exit_status, backoffTicks, dwell, dwellSubmits, beeped>>

\* the branch taken: indicate_success() or indicate_failure() starts
EnrollIndicate(t) ==
    /\ pc[t] = "enroll_decide"
    /\ LET o == EnrollOutcome(card_id[t], response[t]) IN
       /\ signalling' = [signalling EXCEPT ![t] = o.signal]
       /\ nSuccess' = [nSuccess EXCEPT ![t] = nSuccess[t] + (IF o.signal = "success" THEN 1 ELSE 0)]
       /\ nFailure' = [nFailure EXCEPT ![t] = nFailure[t] + (IF o.signal = "failure" THEN 1 ELSE 0)]
    /\ pc' = [pc EXCEPT ![t] = "enroll_signalling"]
    /\ UNCHANGED <<config, extra, attempt, initResult, elapsed, timeout, card_id, uid,
                   hadError, response, nRequest, reply>>

\* the indicator call returns and the handler returns its jsonify(...) reply
EnrollRespond(t) ==
    /\ pc[t] = "enroll_signalling"
    /\ LET o == EnrollOutcome(card_id[t], response[t]) IN
       reply' = [reply EXCEPT ![t] =
                    [status |-> o.status, result |-> o.result, card_id |-> o.card_id]]
    /\ signalling' = [signalling EXCEPT ![t] = "none"]
    /\ pc' = [pc EXCEPT ![t] = "responded"]
    /\ UNCHANGED <<config, extra, attempt, initResult, elapsed, timeout, card_id, uid,
                   hadError, response, nRequest, nSuccess, nFailure>>

\* the reply has been sent; the thread is free for another request
HandlerDone(t) ==
    /\ pc[t] = "responded"
    /\ pc' = [pc EXCEPT ![t] = "idle"]
    /\ card_id' = [card_id EXCEPT ![t] = None]
    /\ uid' = [uid EXCEPT ![t] = NoUid]
    /\ response' = [response EXCEPT ![t] = NoResponse]
    /\ reply' = [reply EXCEPT ![t] = NoReply]
    /\ nRequest' = [nRequest EXCEPT ![t] = 0]
    /\ nSuccess' = [nSuccess EXCEPT ![t] = 0]
    /\ nFailure' = [nFailure EXCEPT ![t] = 0]
    /\ timeout' = [timeout EXCEPT ![t] = 0]
    /\ UNCHANGED <<config, extra, attempt, initResult, elapsed, hadError, signalling>>

InitServer ==
    /\ script = "rfid_module"
    /\ device_mode = ENROLLER_MODE
    /\ InitCommon
    /\ retry_count = DEFAULT_RETRY_COUNT
    /\ jsonErrorIsRequestException

NextServer ==
    \/ InitAttempt
    \/ InitBackoff
    \/ Dispatch
    \/ \E t \in Handlers :
         \/ HandleTrigger(t)
         \/ EnrollIndicatorDone(t)
         \/ EnrollRead(t)
         \/ EnrollRequest(t)
         \/ EnrollIndicate(t)
         \/ EnrollRespond(t)
         \/ HandlerDone(t)

SpecServer == InitServer /\ [][NextServer]_vars

(***************************************************************************)
(* The mode guards.  A PN532Handler constructed with either device_mode    *)
(* has one of its mode methods called: check_card_access (rfid_module.py)  *)
(* or start_enrollment_server (both scripts).  Each method first compares  *)
(* self.device_mode with its own mode and raises RuntimeError otherwise.   *)
(***************************************************************************)
ModeCalls ==
    { <<"rfid_module", "call_check_card_access">>,
      <<"rfid_module", "call_start_enrollment_server">>,
      <<"rfid_module_enroll", "call_start_enrollment_server">> }

\* check_card_access entered without its mode test
EnterCheckCardAccessUnguarded ==
    /\ pc[Main] = "call_check_card_access"
    /\ pc' = [pc EXCEPT ![Main] = "reader_read"]
    /\ timeout' = [timeout EXCEPT ![Main] = CARD_READ_TIMEOUT]
    /\ UNCHANGED <<config, extra, attempt, initResult, elapsed, card_id, uid, hadError,
                   response, nRequest, nSuccess, nFailure, signalling, reply>>

EnterCheckCardAccess ==
    /\ pc[Main] = "call_check_card_access"
    /\ IF device_mode # READER_MODE
       THEN /\ pc' = [pc EXCEPT ![Main] = "refused"]
            /\ UNCHANGED timeout
       ELSE /\ pc' = [pc EXCEPT ![Main] = "reader_read"]
            /\ timeout' = [timeout EXCEPT ![Main] = CARD_READ_TIMEOUT]
    /\ UNCHANGED <<config, extra, attempt, initResult, elapsed, card_id, uid, hadError,
                   response, nRequest, nSuccess, nFailure, signalling, reply>>

EnterEnrollmentServer ==
    /\ pc[Main] = "call_start_enrollment_server"
    /\ IF device_mode # ENROLLER_MODE
       THEN /\ pc' = [pc EXCEPT ![Main] = "refused"]
            /\ UNCHANGED timeout
       ELSE IF script = "rfid_module"
            THEN /\ pc' = [pc EXCEPT ![Main] = "serving"]
                 /\ UNCHANGED timeout
            ELSE /\ pc' = [pc EXCEPT ![Main] = "auto_read"]
                 /\ timeout' = [timeout EXCEPT ![Main] = ENROLL_READ_TIMEOUT]
    /\ UNCHANGED <<config, extra, attempt, initResult, elapsed, card_id, uid, hadError,
                   response, nRequest, nSuccess, nFailure, signalling, reply>>

InitModes ==
    /\ \E p \in ModeCalls :
          /\ script = p[1]
          /\ pc = [t \in Threads |-> IF t = Main THEN p[2] ELSE "idle"]
    /\ device_mode \in {READER_MODE, ENROLLER_MODE}
    /\ retry_count = DEFAULT_RETRY_COUNT
    /\ bringUpOkAt = 1
    /\ jsonErrorIsRequestException = TRUE
    /\ attempt = 1
    /\ initResult = "ok"
    /\ elapsed = [t \in Threads |-> 0]
    /\ timeout = [t \in Threads |-> 0]
    /\ card_id = [t \in Threads |-> None]
    /\ uid = [t \in Threads |-> NoUid]
    /\ hadError = [t \in Threads |-> FALSE]
    /\ response = [t \in Threads |-> NoResponse]
    /\ nRequest = [t \in Threads |-> 0]
    /\ nSuccess = [t \in Threads |-> 0]
    /\ nFailure = [t \in Threads |-> 0]
    /\ signalling = [t \in Threads |-> "none"]
    /\ reply = [t \in Threads |-> NoReply]
    /\ gpioCleanups = 0
    /\ lateWrite = FALSE
    /\ pinHigh = [t \in Threads |-> "none"]
    /\ exit_status = -1
    /\ backoffTicks = 0
    /\ sent = {}
    /\ dwell = NoUid
    /\ dwellSubmits = 0
    /\ beeped = FALSE

NextModes ==
    \/ EnterCheckCardAccess
    \/ EnterEnrollmentServer
    \/ ReaderRead(Main)
    \/ ReaderRequest(Main)
    \/ ReaderIndicate(Main)
    \/ ReaderIndicateDone(Main)
    \/ ReaderCooldown(Main)
    \/ AutoRead(Main)
    \/ AutoIdle(Main)
    \/ AutoRequest(Main)
    \/ AutoIndicate(Main)
    \/ AutoIndicateDone(Main)
    \/ AutoCooldown(Main)
    \/ AutoFinally(Main)
    \/ HandleTrigger("h1")
    \/ EnrollIndicatorDone("h1")
    \/ EnrollRead("h1")
    \/ EnrollRequest("h1")
    \/ EnrollIndicate("h1")
    \/ EnrollRespond("h1")
    \/ HandlerDone("h1")

SpecModes == InitModes /\ [][NextModes]_vars

(***************************************************************************)
(* Properties of the Reader loop, of initialization and of the loops'      *)
(* signalling.                                                             *)
(***************************************************************************)
SignalCount(t) == nSuccess[t] + nFailure[t]

EventOver(t) ==
    /\ card_id[t] # None
    /\ pc[t] \in {"reader_cooldown", "auto_cooldown", "loop_ended", "responded"}

\* C1: in Reader mode, a card event whose authorization request returned 200
\* with allowed=true ends with exactly one indicate_success and no
\* indicate_failure; one whose request returned 200 with allowed false or
\* absent, a status other than 200, or failed with a connection error or a
\* timeout ends with exactly one indicate_failure and no indicate_success.
C1_ReaderFailClosed ==
    (script = "rfid_module" /\ device_mode = READER_MODE) =>
        LET r == response[Main]
            granted == r.kind = "response" /\ r.status_code = 200 /\ r.body = "allowed_true"
            denied == \/ r.kind = "response" /\ r.status_code = 200
                         /\ r.body \in {"allowed_false", "allowed_absent"}
                      \/ r.kind = "response" /\ r.status_code # 200
                      \/ r.kind \in {"ConnectionError", "Timeout"}
        IN /\ (granted \/ denied) => pc[Main] # "loop_ended"
           /\ (granted \/ denied) => SignalCount(Main) <= 1
           /\ (pc[Main] = "reader_cooldown" /\ granted) =>
                 (nSuccess[Main] = 1 /\ nFailure[Main] = 0)
           /\ (pc[Main] = "reader_cooldown" /\ denied) =>
                 (nFailure[Main] = 1 /\ nSuccess[Main] = 0)
           /\ (signalling[Main] = "success") => granted

C1_Witness ==
    /\ script = "rfid_module"
    /\ pc[Main] = "reader_cooldown"
    /\ card_id[Main] = "04a3b2c1"
    /\ response[Main].kind = "Timeout"
    /\ nFailure[Main] = 1
    /\ nSuccess[Main] = 0

\* C2: once _initialize_pn532 has ended, it has returned success after
\* exactly k attempts when the peripheral first comes up on attempt k <= n,
\* and otherwise it has made exactly n attempts and failed with the
\* initialization error (n = retry_count).
C2_Claim ==
    initResult # "running" =>
        IF bringUpOkAt \in 1..retry_count
        THEN initResult = "ok" /\ attempt = bringUpOkAt
        ELSE initResult = "error" /\ attempt = retry_count

\* C3: a mode loop runs (and a read_card call, a remote request or an
\* indicator signal occurs) only after an initialization attempt succeeded;
\* when none succeeded the controller has stopped and nothing of that occurs.
Operating ==
    \/ pc[Main] \notin {"init", "init_backoff", "dispatch", "exited", "terminated"}
    \/ \E t \in Threads : nRequest[t] > 0 \/ SignalCount(t) > 0 \/ signalling[t] # "none"

C3_Claim ==
    /\ Operating => initResult = "ok"
    /\ (initResult \in {"error", "none"}) =>
          (pc[Main] \in {"dispatch", "exited", "terminated"} /\ ~Operating)

\* C18: in _initialize_pn532 every attempt but the first is preceded by
\* exactly one 2 s backoff, and no backoff follows a successful attempt or the
\* last failed one: the time slept in backoffs is 2 s times the number of
\* attempts made before the current one.
C18_BackoffBetweenAttempts ==
    /\ pc[Main] = "init" => backoffTicks = INIT_BACKOFF * attempt
    /\ pc[Main] = "init_backoff" =>
          /\ backoffTicks = INIT_BACKOFF * (attempt - 1)
          /\ attempt < retry_count
          /\ initResult = "running"
    /\ initResult # "running" =>
          backoffTicks = INIT_BACKOFF * (IF attempt = 0 THEN 0 ELSE attempt - 1)

C18_Witness ==
    /\ initResult = "error"
    /\ attempt = 3
    /\ backoffTicks = 2 * INIT_BACKOFF

\* C9: in every mode loop a card event gets exactly one indicator outcome
\* signal: never more than one, and one has been given when the event is
\* over (the loop goes on to its next read, the handler has replied, or the
\* loop has ended), whatever the remote request did.
C9_Claim ==
    \A t \in Threads :
        /\ SignalCount(t) <= 1
        /\ EventOver(t) => SignalCount(t) = 1

\* C10: in the Reader loop and the auto-capture loop an indicator signal is
\* in progress only when the remote request of that card event has returned
\* or failed, and read_card and the request are entered only with no signal
\* in progress; the cooldown before the next read follows a completed signal.
C10_SignalAfterOutcome ==
    /\ signalling[Main] # "none" =>
          (response[Main] # NoResponse /\ nRequest[Main] = 1)
    /\ pc[Main] \in {"reader_read", "reader_request", "auto_read", "auto_idle", "auto_request"} =>
          (signalling[Main] = "none" /\ SignalCount(Main) = 0)
    /\ pc[Main] \in {"reader_cooldown", "auto_cooldown"} =>
          (signalling[Main] = "none" /\ SignalCount(Main) = 1)

C10_Witness ==
    /\ script = "rfid_module_enroll"
    /\ pc[Main] = "auto_signalling"
    /\ signalling[Main] = "success"
    /\ response[Main].kind = "response"
    /\ nRequest[Main] = 1

(***************************************************************************)
(* Properties of server-triggered enrollment.                              *)
(***************************************************************************)

\* C4: at most one read_card call is in progress on the peripheral at any
\* time, however many POST /api triggers have arrived.
C4_Claim ==
    Cardinality({t \in Threads : pc[t] \in {"read_card", "reader_read", "auto_read", "enroll_read"}}) <= 1

\* C7: a POST /api handler whose read_card(10) returned None replies 408 with
\* an error body after exactly one indicate_failure, no indicate_success and
\* no remote enroll request.
C7_TimeoutReply ==
    \A t \in Handlers :
        (card_id[t] = None /\ pc[t] \in {"enroll_decide", "enroll_signalling", "responded"}) =>
            /\ nRequest[t] = 0
            /\ nSuccess[t] = 0
            /\ pc[t] = "enroll_decide" => nFailure[t] = 0
            /\ pc[t] = "enroll_signalling" => (nFailure[t] = 1 /\ signalling[t] = "failure")
            /\ pc[t] = "responded" =>
                  (nFailure[t] = 1 /\ reply[t].status = 408 /\ reply[t].result = "error")

C7_Witness ==
    /\ pc["h1"] = "responded"
    /\ card_id["h1"] = None
    /\ reply["h1"].status = 408
    /\ nFailure["h1"] = 1
    /\ nRequest["h1"] = 0

(***************************************************************************)
(* The lowercase hex text of each card UID, written out.                   *)
(***************************************************************************)
CardHex(u) ==
    IF u = <<4, 163, 178, 193>> THEN "04a3b2c1" ELSE "040aff00123456"

\* C8: a POST /api handler that read a card replies 200 with the identifier
\* read, after exactly one indicate_success, when the remote enroll request
\* returned 200; when the request returned another status or raised, it
\* replies 500 with an error body after exactly one indicate_failure and no
\* indicate_success.
C8_EnrollReply ==
    \A t \in Handlers :
        (pc[t] = "responded" /\ card_id[t] # None) =>
            IF response[t].kind = "response" /\ response[t].status_code = 200
            THEN /\ nSuccess[t] = 1
                 /\ reply[t].status = 200
                 /\ reply[t].card_id = CardHex(uid[t])
            ELSE /\ nFailure[t] = 1
                 /\ nSuccess[t] = 0
                 /\ reply[t].status = 500
                 /\ reply[t].result = "error"

C8_Witness ==
    /\ pc["h2"] = "responded"
    /\ uid["h2"] = <<4, 10, 255, 0, 18, 52, 86>>
    /\ response["h2"].status_code = 200
    /\ reply["h2"].status = 200
    /\ reply["h2"].card_id = "040aff00123456"
    /\ nSuccess["h2"] = 1

\* C5: read_card is not ended by poll errors: a call returns None only once
\* the timeout window has passed, whatever polls raised before, and when a
\* poll started inside the window yields a UID (after earlier polls raised or
\* found no card) the call returns that UID's lowercase hex text.
C5_ReadCardSurvivesErrors ==
    \A t \in Threads :
        pc[t] = "returned" =>
            /\ uid[t] # NoUid => card_id[t] = CardHex(uid[t])
            /\ uid[t] = NoUid => (card_id[t] = None /\ elapsed[t] >= timeout[t])

C5_Witness ==
    /\ pc[Main] = "returned"
    /\ hadError[Main]
    /\ uid[Main] = <<4, 163, 178, 193>>
    /\ card_id[Main] = "04a3b2c1"

\* C6 as claimed: a read_card(T) call that returns None returns no earlier
\* than T and no later than T plus one 0.5 s poll interval.
C6_Original ==
    (pc[Main] = "returned" /\ card_id[Main] = None) =>
        (timeout[Main] <= elapsed[Main] /\ elapsed[Main] <= timeout[Main] + POLL_TIMEOUT)

\* C6 amended: every read_card(T) call terminates, and one that returns None
\* returns no earlier than T and no later than T plus one 0.5 s poll interval
\* plus the 0.1 s pause that follows a poll error.
C6_ReadCardTimeoutBound ==
    /\ []((pc[Main] = "returned" /\ card_id[Main] = None) =>
            (timeout[Main] <= elapsed[Main]
             /\ elapsed[Main] <= timeout[Main] + POLL_TIMEOUT + ERROR_PAUSE))
    /\ <>(pc[Main] = "returned")

C6_Witness ==
    /\ pc[Main] = "returned"
    /\ card_id[Main] = None
    /\ hadError[Main]
    /\ timeout[Main] = CARD_READ_TIMEOUT
    /\ elapsed[Main] > timeout[Main] + POLL_TIMEOUT


\* C13: when initialization exhausts its retries at startup, the process
\* releases the GPIO resources and then terminates with a non-zero exit status.
C13_Claim ==
    (pc[Main] = "terminated" /\ initResult = "error") =>
        (gpioCleanups >= 1 /\ exit_status # 0)

\* a remote call that failed: transport error, timeout, non-success status or
\* a body that is not the expected JSON object
RemoteFailure(r) ==
    \/ r.kind \in {"ConnectionError", "Timeout"}
    \/ r.kind = "response" /\ (r.status_code # 200 \/ r.body \in {"not_json", "json_array"})

\* C14: a failure of the remote call never terminates a mode loop: after it the
\* Reader loop and the auto-capture loop go on to their next read_card call.
C14_Claim ==
    (response[Main] # NoResponse /\ RemoteFailure(response[Main])) =>
        pc[Main] \notin {"auto_finally", "loop_ended"}

\* C15: in the auto-capture loop indicate_success is issued for a card only if
\* the enroll request for that card returned a success status.
C15_Claim ==
    (script = "rfid_module_enroll" /\ (nSuccess[Main] > 0 \/ signalling[Main] = "success")) =>
        /\ response[Main] # NoResponse
        /\ response[Main].kind = "response"
        /\ response[Main].status_code \in {200, 201}

\* C17: on every exit path the GPIO resources are released exactly once before
\* the process exits: never zero times and never more than once.
C17_Claim ==
    /\ gpioCleanups <= 1
    /\ pc[Main] = "terminated" => gpioCleanups = 1

\* C19: in the auto-capture loop no read_card call starts while a submission
\* has not been followed by its cooldown, and a card left continuously in the
\* field is submitted at most once.
C19_Claim ==
    /\ pc[Main] \in {"auto_read", "auto_idle"} => nRequest[Main] = 0
    /\ dwellSubmits <= 1


\* C11: in rfid_module_enroll.py a POST /beep handled while the main loop's
\* read_card call is in progress leaves the identifier read_card returns what
\* it is without the beep (the hex text of the UID the peripheral gave), and
\* the beep handler finishes after its sleep without waiting for read_card:
\* it can make its LOW write and answer whatever the main loop is doing.
C11_BeepDuringRead ==
    /\ \A h \in Handlers : pc[h] = "beep_sleep" => ENABLED BeepLow(h)
    /\ (beeped /\ pc[Main] = "auto_request") =>
          (uid[Main] \in CardUIDs /\ card_id[Main] = CardHex(uid[Main]))
    /\ (beeped /\ pc[Main] = "auto_idle") => card_id[Main] = None

C11_Witness ==
    /\ beeped
    /\ pc[Main] = "auto_request"
    /\ card_id[Main] = "04a3b2c1"
    /\ reply["h1"].status = 200

\* C16: no indicator output pin is held (between its HIGH and its LOW write)
\* by two activities at once.
C16_Claim ==
    \A a, b \in Threads : (a # b /\ pinHigh[a] # "none") => pinHigh[a] # pinHigh[b]

\* C20: in rfid_module_enroll.py no handler calls GPIO.output on the buzzer
\* pin after GPIO.cleanup has run.
C20_Claim == ~lateWrite


ReaderPositions ==
    {"reader_read", "reader_request", "reader_decide", "reader_signalling",
     "reader_cooldown"}

EnrollerPositions ==
    {"serving", "auto_read", "auto_idle", "auto_request", "auto_decide",
     "auto_signalling", "auto_cooldown", "auto_finally"}

Untouched ==
    /\ sent = {}
    /\ \A t \in Threads :
          /\ pc[t] = "idle" \/ t = Main
          /\ elapsed[t] = 0 /\ uid[t] = NoUid /\ card_id[t] = None
          /\ nRequest[t] = 0 /\ SignalCount(t) = 0
          /\ signalling[t] = "none" /\ pinHigh[t] = "none"

\* C12: a process runs one mode for its lifetime: check_card_access goes on
\* only in Reader mode and start_enrollment_server only in Enroller mode, a
\* refused call has touched no peripheral and sent nothing, the configured
\* mode never changes, no enroll request is sent in Reader mode and no
\* authorization-check request in Enroller mode.
C12_OneMode ==
    /\ [](/\ pc[Main] \in ReaderPositions => device_mode = READER_MODE
          /\ (pc[Main] \in EnrollerPositions \/ pc["h1"] # "idle") =>
                device_mode = ENROLLER_MODE
          /\ pc[Main] = "refused" => Untouched
          /\ device_mode = READER_MODE => "enroll" \notin sent
          /\ device_mode = ENROLLER_MODE => "entry" \notin sent)
    /\ [][device_mode' = device_mode]_vars

C12_Witness ==
    /\ script = "rfid_module"
    /\ device_mode = ENROLLER_MODE
    /\ pc[Main] = "refused"
    /\ Untouched

====
